---- MODULE Spec2Model ----
(***************************************************************************)
(* BrowserifyWebpackPlugin (src/webpack.base.config.ts): the processAssets  *)
(* handler that globs the included paths, copies them into the wasabio      *)
(* in-memory filesystem and emits the compressed memory as an asset.        *)
(*                                                                         *)
(* A string is a sequence of tokens: "/" is one token, and a file name is   *)
(* its stem followed by its extension ("a.ts" is <<"a", ".ts">>), so that   *)
(* String.replace, path.dirname, split("/") and glob matching are computed  *)
(* on the text of a path and not on an abstract path value.                 *)
(***************************************************************************)
EXTENDS Integers, Sequences, FiniteSets, TLC

\* Bounds of the model.
MaxIncludes == 2
MaxExcludes == 1
MaxContent == 2
MaxBuilds == 2
MaxEdits == 1

\* `let content: Buffer | null = null`: no content; a file's content is 1..MaxContent.
Null == 0

(***************************************************************************)
(* The native filesystem under process.cwd(): three files and a directory   *)
(* holding one file. The tree is fixed; the files' contents change.         *)
(***************************************************************************)
ProcessCwd == <<"/", "w">>

RelEntries ==
  << <<"a", ".ts">>, <<"b", ".ts">>, <<"mods">>,
     <<"mods", "/", "x", ".ts">>, <<"tty", ".ts">> >>

RelDirs == { <<"mods">> }

Absolute(rel) == ProcessCwd \o <<"/">> \o rel

Range(s) == { s[i] : i \in 1..Len(s) }

FilePaths == { Absolute(r) : r \in Range(RelEntries) \ RelDirs }

DirPaths == { Absolute(r) : r \in RelDirs }

Contents == 1..MaxContent

\* The patterns a driver may pass with --env include... / --env exclude...
IncludePatterns ==
  { <<"*", ".ts">>, <<"mods">>, <<"mods", "/", "*">>, <<"*", ".js">> }

ExcludePatterns == { <<"tty", ".ts">>, <<"mods">> }

MemoryNames == { "", "fs.zip" }

SeqsUpTo(S, n) == UNION { [1..k -> S] : k \in 0..n }

(***************************************************************************)
(* Strings                                                                 *)
(***************************************************************************)
\* s.split("/"): the segments between the slashes, each a token sequence.
RECURSIVE Split(_)
Split(s) ==
  IF \A i \in 1..Len(s) : s[i] # "/" THEN <<s>>
  ELSE LET k == CHOOSE i \in 1..Len(s) :
                  s[i] = "/" /\ \A j \in 1..(i - 1) : s[j] # "/"
       IN <<SubSeq(s, 1, k - 1)>> \o Split(SubSeq(s, k + 1, Len(s)))

\* segs.join("/")
RECURSIVE Join(_)
Join(segs) ==
  IF segs = <<>> THEN <<>>
  ELSE IF Len(segs) = 1 THEN segs[1]
  ELSE segs[1] \o <<"/">> \o Join(Tail(segs))

\* s.replace(pat, ""): the first occurrence of pat is removed.
Replace(s, pat) ==
  LET n == Len(pat)
      Hits == { k \in 1..(Len(s) - n + 1) : SubSeq(s, k, k + n - 1) = pat }
  IN IF n = 0 \/ Hits = {} THEN s
     ELSE LET k == CHOOSE h \in Hits : \A g \in Hits : h <= g
          IN SubSeq(s, 1, k - 1) \o SubSeq(s, k + n, Len(s))

\* path.dirname(p) of node's posix path module.
dirname(p) ==
  LET Slashes == { i \in 1..Len(p) : p[i] = "/" }
  IN IF Slashes = {} THEN <<".">>
     ELSE LET k == CHOOSE i \in Slashes : \A j \in Slashes : j <= i
          IN IF k = 1 THEN <<"/">> ELSE SubSeq(p, 1, k - 1)

RECURSIVE CommonPrefix(_, _)
CommonPrefix(a, b) ==
  IF a = <<>> \/ b = <<>> \/ Head(a) # Head(b) THEN <<>>
  ELSE <<Head(a)>> \o CommonPrefix(Tail(a), Tail(b))

RECURSIVE CommonSegments(_)
CommonSegments(paths) ==
  IF Len(paths) = 1 THEN Split(paths[1])
  ELSE CommonPrefix(Split(paths[1]), CommonSegments(Tail(paths)))

\* lowestCommonAncestor(...files): the longest prefix of whole segments that
\* the paths share; the filesystem root when they share only the root.
lowestCommonAncestor(paths) ==
  IF paths = <<>> THEN <<>>
  ELSE LET common == CommonSegments(paths)
       IN IF common = << <<>> >> THEN <<"/">> ELSE Join(common)

(***************************************************************************)
(* glob-gitignore                                                          *)
(***************************************************************************)
\* A "*" matches any run of tokens within one path segment.
RECURSIVE GlobMatch(_, _)
GlobMatch(pat, s) ==
  IF pat = <<>> THEN s = <<>>
  ELSE IF Head(pat) = "*"
       THEN \/ GlobMatch(Tail(pat), s)
            \/ s # <<>> /\ Head(s) # "/" /\ GlobMatch(pat, Tail(s))
       ELSE s # <<>> /\ Head(s) = Head(pat) /\ GlobMatch(Tail(pat), Tail(s))

\* The directory-aligned prefixes of a relative path, the path itself included.
Ancestors(rel) ==
  LET segs == Split(rel)
  IN { Join(SubSeq(segs, 1, k)) : k \in 1..Len(segs) }

\* An ignore rule in .gitignore style: a rule without a slash names an entry at
\* any depth, a rule with one is anchored; ignoring a directory ignores what
\* it holds.
Ignores(rule, rel) ==
  IF \E i \in 1..Len(rule) : rule[i] = "/"
  THEN \E anc \in Ancestors(rel) : GlobMatch(rule, anc)
  ELSE \E seg \in Range(Split(rel)) : GlobMatch(rule, seg)

Ignored(ignore, rel) == \E i \in 1..Len(ignore) : Ignores(ignore[i], rel)

\* glob(pattern, { ignore, absolute: true })
glob(pattern, ignore) ==
  LET hit(rel) == GlobMatch(pattern, rel) /\ ~Ignored(ignore, rel)
      Abs(rels) == [i \in 1..Len(rels) |-> Absolute(rels[i])]
  IN Abs(SelectSeq(RelEntries, hit))

RECURSIVE Flat(_)
Flat(seqs) == IF seqs = <<>> THEN <<>> ELSE Head(seqs) \o Flat(Tail(seqs))

\* Mutant: the flattened matches are returned as they are.
NoDedup(flat) == flat

\* Array.from(new Set(flat)): the first occurrence of each element, in order.
RECURSIVE Unique(_)
Unique(flat) ==
  IF flat = <<>> THEN <<>>
  ELSE LET init == Unique(SubSeq(flat, 1, Len(flat) - 1))
           last == flat[Len(flat)]
       IN IF last \in Range(init) THEN init ELSE Append(init, last)

\* Mutant: the ignore list reaches only the first pattern's glob.
IgnoreFirstOnly(i, excl) == IF i = 1 THEN excl ELSE <<>>

\* The ignore list handed to the glob of the i-th include pattern.
IgnoreFor(i, excl) == excl

_globIncludedPaths(incl, excl) ==
  Unique(Flat([i \in 1..Len(incl) |-> glob(incl[i], IgnoreFor(i, excl))]))

(***************************************************************************)
(* wasabio: the in-memory filesystem image, its serializer and compressor   *)
(***************************************************************************)
\* await initialize(): an empty memory.
EmptyImage == [dirs |-> {}, files |-> {}]

\* mkdir(path, { recursive: true }) creates the path and every ancestor of it.
RECURSIVE MkdirChain(_)
MkdirChain(path) ==
  IF dirname(path) = path THEN {path} ELSE {path} \cup MkdirChain(dirname(path))

mkdir(img, path) == [img EXCEPT !.dirs = @ \cup MkdirChain(path)]

\* writeFile(path, content) replaces whatever the path held.
writeFile(img, path, data) ==
  [img EXCEPT !.files = { f \in @ : f[1] # path } \cup { <<path, data>> }]

Mutate(img, m) ==
  IF m.op = "mkdir" THEN mkdir(img, m.path) ELSE writeFile(img, m.path, m.content)

\* How a mutation may settle: wasabio resolves the call or rejects it.
MutationOutcomes(path) == {"ok", "error"}

serialize(img) == <<"serialized", img>>

compress(bytes) == <<"compressed", bytes>>

(***************************************************************************)
(* The plugin                                                              *)
(***************************************************************************)
VARIABLES
  env,          \* the --env arguments: includes, excludes, memory
  plugin,       \* the constructed plugin: _includes, _excludes, _name
  content,      \* native filesystem: each file's current content
  cacheFile,    \* native filesystem: the persisted cache file, if it exists
  artifact,     \* output directory: the asset last emitted, if any
  pc,           \* "idle", "glob", "initialize", "datum", "loop", "compress",
                \* "done", "failed": where the hook is suspended, or how it ended
  buildNo,      \* builds started so far
  globs,        \* per inclusion pattern: "pending", "resolved", "rejected"
  late,         \* calls of earlier builds of this process that have not settled
  files,        \* the result of _globIncludedPaths in this build
  cwd,          \* lowestCommonAncestor(...files)
  task,         \* per selected path: "stat", "read", "resolved", "rejected"
  datum,        \* per selected path: { dst, content }
  idx,          \* the position of the for-of loop over datum
  step,         \* the next wasabio call of the loop body: "mkdir" or "writeFile"
  inflight,     \* image mutations issued and not yet settled
  image,        \* the wasabio memory
  ops,          \* image mutations completed in this build, in order
  serialized,   \* the result of serialize(mem), once called
  assets,       \* the assets emitted into this build's compilation
  builtContent, \* per file, the content the latest readFile of it returned
  prevContent,  \* builtContent as it was when this build started
  prevOk,       \* whether this process's previous build emitted its asset
  edits,        \* file edits so far
  error         \* the call whose rejection rejected the hook, or "none"

vars ==
  << env, plugin, content, cacheFile, artifact, pc, buildNo, globs, late, files, cwd,
     task, datum, idx, step, inflight, image, ops, serialized, assets, builtContent,
     prevContent, prevOk, edits, error >>

\* this._name = env?.memory || "mem.zip"
DefaultName(memory) == IF memory = "" THEN "mem.zip" ELSE memory

Constructor(e) ==
  [_includes |-> e.includes, _excludes |-> e.excludes, _name |-> DefaultName(e.memory)]

Init ==
  /\ env \in [includes : SeqsUpTo(IncludePatterns, MaxIncludes),
              excludes : SeqsUpTo(ExcludePatterns, MaxExcludes),
              memory : MemoryNames]
  /\ plugin = Constructor(env)
  /\ content = [f \in FilePaths |-> 1]
  /\ cacheFile = [exists |-> FALSE, pairs |-> {}]
  /\ artifact = {}
  /\ pc = "idle"
  /\ buildNo = 0
  /\ globs = <<>>
  /\ late = {}
  /\ files = <<>>
  /\ cwd = <<>>
  /\ task = <<>>
  /\ datum = <<>>
  /\ idx = 1
  /\ step = "mkdir"
  /\ inflight = {}
  /\ image = EmptyImage
  /\ ops = <<>>
  /\ serialized = <<>>
  /\ assets = {}
  /\ builtContent = content
  /\ prevContent = content
  /\ prevOk = FALSE
  /\ edits = 0
  /\ error = "none"

Idle == pc \in {"idle", "done", "failed"}

\* The glob, stat and readFile calls of this build that have not settled.
Pending ==
  { [build |-> buildNo, call |-> "glob", at |-> i, path |-> plugin._includes[i]] :
      i \in { j \in DOMAIN globs : globs[j] = "pending" } }
  \cup
  { [build |-> buildNo, call |-> task[i], at |-> i, path |-> files[i]] :
      i \in { j \in DOMAIN task : task[j] \in {"stat", "read"} } }

\* A file is rewritten on the native filesystem, between two builds or while
\* a call is pending. Edits after the last build has ended and its last call
\* has settled reach nothing.
Edit(f, c) ==
  /\ (Idle /\ Pending = {} /\ late = {}) => buildNo < MaxBuilds
  /\ edits < MaxEdits
  /\ content[f] # c
  /\ content' = [content EXCEPT ![f] = c]
  /\ edits' = edits + 1
  /\ UNCHANGED << env, plugin, cacheFile, late, artifact, pc, buildNo, globs, files, cwd, task,
                  datum, idx, step, inflight, image, ops, serialized, assets,
                  builtContent, prevContent, prevOk, error >>

\* Mutant: the length test is gone.
AnyLength(fs) == TRUE

\* if (files.length)
HasLength(fs) == Len(fs) # 0

\* (await nativeFs.stat(src)).isDirectory()
isDirectory(src) == src \in DirPaths

\* webpack calls the processAssets hook: _globIncludedPaths issues one glob
\* per inclusion pattern and the hook is suspended on them. Nothing cancels
\* the calls of a rejected build that are still pending.
ProcessAssets ==
  /\ Idle
  /\ buildNo < MaxBuilds
  /\ buildNo' = buildNo + 1
  /\ prevContent' = builtContent
  /\ prevOk' = (assets # {})
  /\ error' = "none"
  /\ assets' = {}
  /\ ops' = <<>>
  /\ serialized' = <<>>
  /\ inflight' = {}
  /\ idx' = 1
  /\ step' = "mkdir"
  /\ globs' = [i \in 1..Len(plugin._includes) |-> "pending"]
  /\ late' = late \cup Pending
  /\ files' = <<>>
  /\ cwd' = <<>>
  /\ task' = <<>>
  /\ datum' = <<>>
  /\ pc' = "glob"
  /\ UNCHANGED << env, plugin, content, cacheFile, artifact, image, builtContent, edits >>

\* One glob settles; the first rejected glob rejects Promise.all and with it
\* the hook. The other globs are not cancelled: each settles in its own time.
GlobSettles(i) ==
  /\ i \in DOMAIN globs
  /\ globs[i] = "pending"
  /\ \E outcome \in {"ok", "error"} :
       IF outcome = "error"
       THEN /\ globs' = [globs EXCEPT ![i] = "rejected"]
            /\ pc' = IF pc = "glob" THEN "failed" ELSE pc
            /\ error' = IF pc = "glob" THEN "glob" ELSE error
       ELSE /\ globs' = [globs EXCEPT ![i] = "resolved"]
            /\ UNCHANGED << pc, error >>
  /\ UNCHANGED << env, plugin, content, cacheFile, late, artifact, buildNo, files, cwd, task,
                  datum, idx, step, inflight, image, ops, serialized, assets,
                  builtContent, prevContent, prevOk, edits >>

\* Mutant: the map's promises are raced, the first to resolve wins.
AnyResolved(t) == \E i \in DOMAIN t : t[i] = "resolved"

\* Promise.all resolves once every promise it was given has.
AllResolved(t) == \A i \in DOMAIN t : t[i] = "resolved"

\* The globs have resolved: the hook has its files, tests their number, and
\* _makeWasabioMemory is suspended on initialize().
GlobsResolve ==
  /\ pc = "glob"
  /\ AllResolved(globs)
  /\ LET fs == _globIncludedPaths(plugin._includes, plugin._excludes)
     IN /\ files' = fs
        /\ pc' = IF HasLength(fs) THEN "initialize" ELSE "done"
  /\ UNCHANGED << env, plugin, content, cacheFile, late, artifact, buildNo, globs, cwd, task,
                  datum, idx, step, inflight, image, ops, serialized, assets,
                  builtContent, prevContent, prevOk, edits, error >>

\* initialize() settles: the common ancestor is taken and one async task per
\* file runs to its stat; or initialize() rejects and the hook with it.
InitializeSettles ==
  /\ pc = "initialize"
  /\ \E outcome \in {"ok", "error"} :
       IF outcome = "error"
       THEN /\ pc' = "failed"
            /\ error' = "initialize"
            /\ UNCHANGED << image, cwd, task, datum >>
       ELSE /\ pc' = "datum"
            /\ image' \in {EmptyImage, image}
            /\ cwd' = lowestCommonAncestor(files)
            /\ task' = [i \in 1..Len(files) |-> "stat"]
            /\ datum' = [i \in 1..Len(files) |->
                           [dst |-> Replace(files[i], lowestCommonAncestor(files)),
                            content |-> Null]]
            /\ UNCHANGED error
  /\ UNCHANGED << env, plugin, content, cacheFile, late, artifact, buildNo, globs, files, idx,
                  step, inflight, ops, serialized, assets, builtContent, prevContent,
                  prevOk, edits >>

\* The first rejected task rejects Promise.all and with it the hook. The
\* other tasks are not cancelled: each goes on when its own call settles, and
\* what it does from then on reaches neither the image nor the compilation.
StatSettles(i) ==
  /\ i \in DOMAIN task
  /\ task[i] = "stat"
  /\ \E outcome \in {"ok", "error"} :
       IF outcome = "error"
       THEN /\ task' = [task EXCEPT ![i] = "rejected"]
            /\ pc' = IF pc = "datum" THEN "failed" ELSE pc
            /\ error' = IF pc = "datum" THEN "stat" ELSE error
       ELSE /\ task' = [task EXCEPT ![i] =
                          IF isDirectory(files[i]) THEN "resolved" ELSE "read"]
            /\ UNCHANGED << pc, error >>
  /\ UNCHANGED << env, plugin, content, cacheFile, late, artifact, buildNo, globs, files, cwd,
                  datum, idx, step, inflight, image, ops, serialized, assets,
                  builtContent, prevContent, prevOk, edits >>

\* readFile returns what the file holds when it is read.
ReadSettles(i) ==
  /\ i \in DOMAIN task
  /\ task[i] = "read"
  /\ \E outcome \in {"ok", "error"} :
       IF outcome = "error"
       THEN /\ task' = [task EXCEPT ![i] = "rejected"]
            /\ pc' = IF pc = "datum" THEN "failed" ELSE pc
            /\ error' = IF pc = "datum" THEN "readFile" ELSE error
            /\ UNCHANGED << datum, builtContent >>
       ELSE /\ task' = [task EXCEPT ![i] = "resolved"]
            /\ datum' = [datum EXCEPT ![i].content = content[files[i]]]
            /\ builtContent' = [builtContent EXCEPT ![files[i]] = content[files[i]]]
            /\ UNCHANGED << pc, error >>
  /\ UNCHANGED << env, plugin, content, cacheFile, late, artifact, buildNo, globs, files, cwd,
                  idx, step, inflight, image, ops, serialized, assets, prevContent,
                  prevOk, edits >>

\* A call of an earlier build settles. Its Promise.all has rejected, so what
\* it returns reaches nothing; a stat that finds a file still issues the
\* readFile of its task.
LateSettles(c) ==
  /\ c \in late
  /\ \E outcome \in {"ok", "error"} :
       IF outcome = "ok" /\ c.call = "stat" /\ ~isDirectory(c.path)
       THEN /\ late' = (late \ {c}) \cup {[c EXCEPT !.call = "read"]}
            /\ UNCHANGED builtContent
       ELSE /\ late' = late \ {c}
            /\ builtContent' =
                 IF outcome = "ok" /\ c.call = "read"
                 THEN [builtContent EXCEPT ![c.path] = content[c.path]]
                 ELSE builtContent
  /\ UNCHANGED << env, plugin, content, cacheFile, artifact, pc, buildNo, globs, files,
                  cwd, task, datum, idx, step, inflight, image, ops, serialized, assets,
                  prevContent, prevOk, edits, error >>

\* const datum = await Promise.all(files.map(...))
DatumResolves ==
  /\ pc = "datum"
  /\ AllResolved(task)
  /\ pc' = "loop"
  /\ UNCHANGED << env, plugin, content, cacheFile, late, artifact, buildNo, globs, files, cwd,
                  task, datum, idx, step, inflight, image, ops, serialized, assets,
                  builtContent, prevContent, prevOk, edits, error >>

\* Mutant: the wasabio calls are issued without await.
NotAwaited(calls) == TRUE

\* `await`: the loop goes on only when the call it issued has settled.
Awaited(calls) == calls = {}

\* data.content === null
IsNull(c) == c = Null

IssueMkdir ==
  /\ pc = "loop"
  /\ idx <= Len(datum)
  /\ step = "mkdir"
  /\ Awaited(inflight)
  /\ LET data == datum[idx]
     IN IF IsNull(data.content)
        THEN /\ inflight' = inflight \cup
                  {[op |-> "mkdir", path |-> data.dst, content |-> Null, at |-> idx]}
             /\ idx' = idx + 1
             /\ UNCHANGED step
        ELSE /\ inflight' = inflight \cup
                  {[op |-> "mkdir", path |-> dirname(data.dst), content |-> Null, at |-> idx]}
             /\ step' = "writeFile"
             /\ UNCHANGED idx
  /\ UNCHANGED << env, plugin, content, cacheFile, late, artifact, pc, buildNo, globs, files,
                  cwd, task, datum, image, ops, serialized, assets, builtContent,
                  prevContent, prevOk, edits, error >>

IssueWriteFile ==
  /\ pc = "loop"
  /\ idx <= Len(datum)
  /\ step = "writeFile"
  /\ Awaited(inflight)
  /\ inflight' = inflight \cup
       {[op |-> "writeFile", path |-> datum[idx].dst, content |-> datum[idx].content,
         at |-> idx]}
  /\ idx' = idx + 1
  /\ step' = "mkdir"
  /\ UNCHANGED << env, plugin, content, cacheFile, late, artifact, pc, buildNo, globs, files,
                  cwd, task, datum, image, ops, serialized, assets, builtContent,
                  prevContent, prevOk, edits, error >>

\* A wasabio call settles: it has changed the image, or it throws and the hook
\* rejects.
MutationSettles(m) ==
  /\ pc = "loop"
  /\ m \in inflight
  /\ inflight' = inflight \ {m}
  /\ \E outcome \in MutationOutcomes(m.path) :
       IF outcome = "ok"
       THEN /\ image' = Mutate(image, m)
            /\ ops' = Append(ops, m)
            /\ UNCHANGED << pc, error >>
       ELSE /\ pc' = "failed"
            /\ error' = m.op
            /\ UNCHANGED << image, ops >>
  /\ UNCHANGED << env, plugin, content, cacheFile, late, artifact, buildNo, globs, files, cwd,
                  task, datum, idx, step, serialized, assets, builtContent, prevContent,
                  prevOk, edits >>

\* The loop is over: serialize(mem), and the hook is suspended on compress.
Serialize ==
  /\ pc = "loop"
  /\ idx > Len(datum)
  /\ Awaited(inflight)
  /\ serialized' = serialize(image)
  /\ pc' = "compress"
  /\ UNCHANGED << env, plugin, content, cacheFile, late, artifact, buildNo, globs, files, cwd,
                  task, datum, idx, step, inflight, image, ops, assets, builtContent,
                  prevContent, prevOk, edits, error >>

\* compress settles: back in the hook, emitAsset(this._name, asset); or
\* compress rejects and the hook with it.
CompressSettles ==
  /\ pc = "compress"
  /\ \E outcome \in {"ok", "error"} :
       IF outcome = "error"
       THEN /\ pc' = "failed"
            /\ error' = "compress"
            /\ UNCHANGED << assets, artifact >>
       ELSE /\ assets' = assets \cup
                  {[name |-> plugin._name, source |-> compress(serialized)]}
            /\ artifact' = {[name |-> plugin._name, source |-> compress(serialized)]}
            /\ pc' = "done"
            /\ UNCHANGED error
  /\ UNCHANGED << env, plugin, content, cacheFile, late, buildNo, globs, files, cwd, task,
                  datum, idx, step, inflight, image, ops, serialized, builtContent,
                  prevContent, prevOk, edits >>

\* The steps of the hook once webpack has called it.
HookNext ==
  \/ \E i \in 1..MaxIncludes : GlobSettles(i)
  \/ GlobsResolve
  \/ InitializeSettles
  \/ \E i \in 1..Len(RelEntries) : StatSettles(i)
  \/ \E i \in 1..Len(RelEntries) : ReadSettles(i)
  \/ DatumResolves
  \/ IssueMkdir
  \/ IssueWriteFile
  \/ \E m \in inflight : MutationSettles(m)
  \/ Serialize
  \/ CompressSettles

Next ==
  \/ \E f \in FilePaths, c \in Contents : Edit(f, c)
  \/ ProcessAssets
  \/ HookNext
  \/ \E c \in late : LateSettles(c)

Spec == Init /\ [][Next]_vars

\* One pass of the hook: the first build of a freshly constructed plugin,
\* with the disk changing underneath.
PassNext ==
  \/ \E f \in FilePaths, c \in Contents : Edit(f, c)
  \/ buildNo = 0 /\ ProcessAssets
  \/ HookNext

SpecOnePass == Init /\ [][PassNext]_vars

\* One pass of the hook over a disk that nothing else writes.
QuietNext ==
  \/ buildNo = 0 /\ ProcessAssets
  \/ HookNext

SpecQuiet == Init /\ [][QuietNext]_vars

\* The process ends after a build and webpack is started again, with any --env
\* arguments: a new plugin is constructed, and what stays is on the disk. The
\* pending calls of the old process end with it.
Restart(e) ==
  /\ pc \in {"done", "failed"}
  /\ buildNo < MaxBuilds
  /\ env' = e
  /\ plugin' = Constructor(e)
  /\ pc' = "idle"
  /\ globs' = <<>>
  /\ late' = {}
  /\ files' = <<>>
  /\ cwd' = <<>>
  /\ task' = <<>>
  /\ datum' = <<>>
  /\ idx' = 1
  /\ step' = "mkdir"
  /\ inflight' = {}
  /\ image' = EmptyImage
  /\ ops' = <<>>
  /\ serialized' = <<>>
  /\ assets' = {}
  /\ error' = "none"
  /\ UNCHANGED << content, cacheFile, artifact, buildNo, builtContent, prevContent,
                  prevOk, edits >>

\* Builds of one process and of later processes, over an unchanged tree.
RestartNext ==
  \/ \E e \in [includes : SeqsUpTo(IncludePatterns, MaxIncludes),
               excludes : SeqsUpTo(ExcludePatterns, MaxExcludes),
               memory : MemoryNames] : Restart(e)
  \/ ProcessAssets
  \/ HookNext
  \/ \E c \in late : LateSettles(c)

SpecRestart == Init /\ [][RestartNext]_vars

(***************************************************************************)
(* Vocabulary of the claims                                                *)
(***************************************************************************)
\* The content fingerprint of the specification; the plugin computes none.
fingerprint(c) == <<"digest", c>>

\* The path relative to process.cwd() of an absolute path under it.
RelOf(p) == SubSeq(p, Len(ProcessCwd) + 2, Len(p))

\* The globs of this build have resolved: its selection is known.
Started == pc \notin {"idle", "glob"} /\ error # "glob"

SelectedFiles == { i \in 1..Len(files) : files[i] \in FilePaths }

SelectedDirs == { i \in 1..Len(files) : files[i] \in DirPaths }

\* The positions in ops of the content writes of this build.
ContentWrites == { k \in 1..Len(ops) : ops[k].op = "writeFile" }

\* The selected files whose content differs from what the previous build read.
ChangedFiles == { i \in SelectedFiles : builtContent[files[i]] # prevContent[files[i]] }

\* The mutations of this build issued for the i-th selected path.
IssuedFor(i) == { m \in inflight \cup Range(ops) : m.at = i }

\* The build is the second of two consecutive builds that both emitted.
SecondPass == pc = "done" /\ prevOk /\ assets # {}

(***************************************************************************)
(* C1. Incrementality: when exactly one selected file f changed between two *)
(* consecutive builds, the second build issues exactly one content write,   *)
(* for f's virtual path, and the cache then maps f's virtual path to the    *)
(* fingerprint of its new content.                                          *)
(* The plugin keeps no cache: it writes every selected file again.          *)
(***************************************************************************)
CE1_Incrementality ==
  \A f \in SelectedFiles :
    (SecondPass /\ ChangedFiles = {f}) =>
      /\ \A k \in ContentWrites : ops[k].path = datum[f].dst
      /\ Cardinality(ContentWrites) = 1
      /\ <<datum[f].dst, fingerprint(builtContent[files[f]])>> \in cacheFile.pairs

(***************************************************************************)
(* C2. Idempotence: a second build with no filesystem change in between     *)
(* issues zero content writes.                                              *)
(***************************************************************************)
CE2_Idempotence ==
  (SecondPass /\ builtContent = prevContent) => ContentWrites = {}

(***************************************************************************)
(* C3. After a first build (empty cache, no prior artifact) with a          *)
(* non-empty selection the image holds every selected file's content at its *)
(* virtual path, and the cache holds exactly one entry per selected file:   *)
(* its virtual path mapped to the fingerprint of its content.               *)
(***************************************************************************)
CE3_FirstBuild ==
  (pc = "done" /\ buildNo = 1 /\ files # <<>>) =>
    /\ \A i \in SelectedFiles :
         <<datum[i].dst, builtContent[files[i]]>> \in image.files
    /\ cacheFile.exists
    /\ cacheFile.pairs =
         { <<datum[i].dst, fingerprint(builtContent[files[i]])>> : i \in SelectedFiles }

(***************************************************************************)
(* C4. Empty-selection no-op: a build whose patterns match nothing emits no *)
(* asset, issues no image mutation and leaves the cache file alone; a build *)
(* with a non-empty selection emits one asset, the compressed serialized    *)
(* image, named env.memory or else mem.zip, unless a call the hook awaits   *)
(* rejected and the hook with it.                                           *)
(***************************************************************************)
C4_EmptySelectionNoOp ==
  /\ (Started /\ files = <<>>) =>
       /\ pc = "done"
       /\ assets = {}
       /\ ops = <<>> /\ inflight = {}
       /\ ~cacheFile.exists
  /\ (pc \in {"done", "failed"} /\ files # <<>>) =>
       \/ pc = "done" /\ error = "none" /\ assets =
            { [name |-> IF env.memory = "" THEN "mem.zip" ELSE env.memory,
               source |-> <<"compressed", <<"serialized", image>>>>] }
       \/ pc = "failed" /\ error # "none" /\ assets = {}
  /\ assets # {} => (pc = "done" /\ files # <<>>)

W4_PatternsMatchNothing ==
  pc = "done" /\ files = <<>> /\ env.includes # <<>> /\ assets = {}

(***************************************************************************)
(* C5. Selection precedence: no selected path is matched by an exclusion    *)
(* pattern, whichever inclusion pattern matched it; include *.ts with       *)
(* exclude tty.ts selects exactly a.ts and b.ts.                            *)
(***************************************************************************)
C5_SelectionPrecedence ==
  Started =>
    /\ \A p \in Range(files) :
         \A k \in 1..Len(env.excludes) : ~Ignores(env.excludes[k], RelOf(p))
    /\ (env.includes = << <<"*", ".ts">> >> /\ env.excludes = << <<"tty", ".ts">> >>) =>
         Range(files) = { <<"/", "w", "/", "a", ".ts">>, <<"/", "w", "/", "b", ".ts">> }

\* Two inclusion patterns that each match an excluded path, and a selection.
W5_ExcludedFromEveryPattern ==
  /\ Started /\ files # <<>>
  /\ Len(env.includes) = 2
  /\ \A k \in 1..2 : \E rel \in Range(RelEntries) :
       GlobMatch(env.includes[k], rel) /\ Ignored(env.excludes, rel)

(***************************************************************************)
(* C6. The selection is the union of the matches of all inclusion patterns  *)
(* and holds no path twice, so a build has one task per selected path and   *)
(* issues at most one content write per path.                               *)
(***************************************************************************)
C6_Deduplicated ==
  Started =>
    /\ \A i, j \in 1..Len(files) : files[i] = files[j] => i = j
    /\ Range(files) =
         UNION { Range(glob(env.includes[k], env.excludes)) : k \in 1..Len(env.includes) }
    /\ pc \in {"datum", "loop", "compress", "done"} =>
         Len(task) = Cardinality(Range(files))
    /\ \A a, b \in ContentWrites : ops[a].path = ops[b].path => a = b

\* A path matched by both inclusion patterns has been written.
W6_MatchedTwice ==
  /\ pc = "done" /\ Len(env.includes) = 2
  /\ \E k \in ContentWrites :
       /\ files[ops[k].at] \in Range(glob(env.includes[1], env.excludes))
       /\ files[ops[k].at] \in Range(glob(env.includes[2], env.excludes))

(***************************************************************************)
(* C7. A stat or read failure on one selected path does not abort the pass: *)
(* once the build has ended, every selected path whose stat and read        *)
(* succeeded has been written into the image.                               *)
(* The plugin awaits Promise.all: one rejection rejects the whole hook.     *)
(***************************************************************************)
CE7_PartialFailure ==
  (pc \in {"done", "failed"} /\ \E i \in DOMAIN task : task[i] = "rejected") =>
    \A i \in DOMAIN task :
      task[i] = "resolved" => \E m \in Range(ops) : m.at = i /\ m.path = datum[i].dst

(***************************************************************************)
(* C8. The cache is persisted at the end of every build with a non-empty    *)
(* selection, whether or not the build succeeds.                            *)
(* The plugin writes nothing to the native filesystem.                      *)
(***************************************************************************)
CE8_CachePersisted ==
  (pc \in {"done", "failed"} /\ files # <<>>) => cacheFile.exists

(***************************************************************************)
(* C9. The mutations of the image are serialized: at most one mkdir or      *)
(* writeFile is in flight, none while a stat or read is awaited, the        *)
(* completed ones follow the selection order, and a file's content write is *)
(* issued only after the mkdir of its parent directory has completed.       *)
(***************************************************************************)
C9_MutationsSerialized ==
  /\ Cardinality(inflight) <= 1
  /\ pc = "datum" => (inflight = {} /\ ops = <<>>)
  /\ \A m \in inflight :
       /\ \A k \in 1..Len(ops) : ops[k].at <= m.at
       /\ m.op = "writeFile" =>
            /\ ops # <<>>
            /\ ops[Len(ops)] = [op |-> "mkdir", path |-> dirname(m.path),
                                content |-> Null, at |-> m.at]
  /\ \A k \in ContentWrites :
       /\ k > 1
       /\ ops[k - 1].op = "mkdir" /\ ops[k - 1].at = ops[k].at
       /\ ops[k - 1].path = dirname(ops[k].path)
  /\ \A j, k \in 1..Len(ops) : j < k => ops[j].at <= ops[k].at

\* A content write in flight after the mutations of an earlier path completed.
W9_WriteInFlight ==
  \E m \in inflight :
    /\ m.op = "writeFile" /\ m.at > 1
    /\ \E k \in 1..Len(ops) : ops[k].at < m.at

(***************************************************************************)
(* C10. A selected directory is never read and never written as content,    *)
(* and every build issues mkdir at its virtual path, unconditionally: a     *)
(* build that has ended, and in which the stat of the directory resolved,   *)
(* has issued it; the cache is neither consulted nor changed.               *)
(* The mkdir is issued in the loop after Promise.all: a build rejected by   *)
(* another path's stat or readFile issues none.                             *)
(***************************************************************************)
CE10_DirectoriesUnconditional ==
  \A i \in SelectedDirs \cap DOMAIN task :
    /\ task[i] # "read"
    /\ datum[i].content = Null
    /\ \A m \in IssuedFor(i) : m.op = "mkdir" /\ m.path = datum[i].dst
    /\ (pc \in {"done", "failed"} /\ task[i] = "resolved") =>
         \E m \in IssuedFor(i) : m.op = "mkdir"
    /\ ~cacheFile.exists

\* decompress and deserialize, the inverses of compress and serialize: the
\* image an emitted asset holds. The plugin calls neither.
decompress(buf) == buf[2]

deserialize(bytes) == bytes[2]

\* The virtual paths an image holds.
ImagePaths(img) == img.dirs \cup { f[1] : f \in img.files }

\* The virtual paths of the image in the asset last emitted.
ArtifactPaths == UNION { ImagePaths(deserialize(decompress(a.source))) : a \in artifact }

CacheKeys == { pair[1] : pair \in cacheFile.pairs }

(***************************************************************************)
(* C11. No stale-entry pruning: a virtual path present in the image or in   *)
(* the cache after one build is present after every later build, also when *)
(* the later build does not select it; the image's paths and the cache's    *)
(* keys never shrink.                                                       *)
(* Every build starts from initialize() and no emitted asset is read back:  *)
(* the image of a later process holds that build's selection alone.         *)
(***************************************************************************)
CE11_NoStalePruning ==
  [][ArtifactPaths \subseteq ArtifactPaths' /\ CacheKeys \subseteq CacheKeys']_vars

(***************************************************************************)
(* C12. For every non-empty selection, also one of a single path and one    *)
(* that holds the common root itself, the virtual path handed to the image  *)
(* for a selected path p is p with the root prefix stripped: it begins with *)
(* "/", is never empty and never keeps the root prefix.                     *)
(* src.replace(cwd, "") is empty when p is the common ancestor itself.      *)
(***************************************************************************)
CE12_VirtualPathRooted ==
  \A i \in 1..Len(files) :
    \A m \in IssuedFor(i) :
      m.path = datum[i].dst =>
        /\ m.path # <<>>
        /\ Head(m.path) = "/"
        /\ cwd \o m.path = files[i]

\* The mutations of this build issued so far, settled or not.
Issued == inflight \cup Range(ops)

(***************************************************************************)
(* C13. The pass is all or nothing: no mkdir or writeFile is issued before  *)
(* the stat and the read of every selected path have completed, and the     *)
(* mutations are then applied in selection order; when a stat or a read     *)
(* fails the build issues no mutation and emits no asset; an asset is       *)
(* emitted only after every mutation, the serialization and the compression *)
(* have completed.                                                          *)
(***************************************************************************)
C13_AllOrNothing ==
  /\ Issued # {} => (task # <<>> /\ \A i \in DOMAIN task : task[i] = "resolved")
  /\ \A m \in Issued : m.op = "writeFile" => m.content # Null
  /\ \A j, k \in 1..Len(ops) : j < k => ops[j].at <= ops[k].at
  /\ \A m \in inflight : \A k \in 1..Len(ops) : ops[k].at <= m.at
  /\ error \in {"stat", "readFile"} => (Issued = {} /\ assets = {} /\ pc = "failed")
  /\ \A i \in DOMAIN task : task[i] = "rejected" => (Issued = {} /\ assets = {})
  /\ \A a \in assets :
       /\ inflight = {}
       /\ idx > Len(datum)
       /\ \A i \in 1..Len(files) : \E m \in Range(ops) : m.at = i /\ m.path = datum[i].dst
       /\ serialized = serialize(image)
       /\ a.source = compress(serialized)

\* A build of several paths in which one file was read and the read of
\* another then failed.
W13_ReadFailedAfterRead ==
  /\ pc = "failed"
  /\ error = "readFile"
  /\ \E i \in SelectedFiles : task[i] = "resolved" /\ datum[i].content # Null

====
